---- MODULE Spec2Model ----
(***************************************************************************)
(* The video variant pipeline of backend/app/api/videos.py: upload_video   *)
(* admits a job, create_video_variants orchestrates one                    *)
(* process_platform_variant task per requested platform, tracks progress   *)
(* in the process-wide dict processing_status and finally writes the       *)
(* outcome to the Content row.  The requests that touch the same state     *)
(* (delete_content of videos.py and of content.py, update_content,         *)
(* process_video, get_processing_status) are modelled beside it.           *)
(*                                                                         *)
(* Scheduling is asyncio's: a coroutine runs without interruption up to    *)
(* its next suspending await, so every action below is the code between    *)
(* two suspension points.  An await of a task that is already done does    *)
(* not suspend.                                                            *)
(***************************************************************************)
EXTENDS Integers, Sequences, FiniteSets, TLC

\* Longest platform list a client submits.
MaxTargets == 2

\* Ids that uuid4 hands out (upload_video, line 432).
ContentIds == {"c1"}

\* Platform names clients put in their lists; "snapchat" has no profile.
InputPlatforms == {"tiktok", "twitter", "snapchat"}

\* PLATFORM_SPECS (lines 32-38); process_platform_variant repeats the same
\* widths and heights in its own table (lines 364-370).
PLATFORM_SPECS ==
    [p \in {"tiktok", "instagram", "youtube_shorts", "facebook", "twitter"} |->
        CASE p = "tiktok"         -> [width |-> 1080, height |-> 1920]
          [] p = "instagram"      -> [width |-> 1080, height |-> 1920]
          [] p = "youtube_shorts" -> [width |-> 1080, height |-> 1920]
          [] p = "facebook"       -> [width |-> 1080, height |-> 1080]
          [] p = "twitter"        -> [width |-> 1280, height |-> 720]]

\* platform_specs.get(platform, {"width": 1080, "height": 1920}) (line 372).
SpecFor(platform) ==
    IF platform \in DOMAIN PLATFORM_SPECS
    THEN PLATFORM_SPECS[platform]
    ELSE [width |-> 1080, height |-> 1920]

\* ContentStatus (models/content.py, lines 13-21).
ContentStatus ==
    {"draft", "processing", "ready", "scheduled", "published", "failed", "archived"}

\* Status values update_content is asked to set in this model.
UpdateStatuses == {"archived", "ready"}

\* All sequences over S of length at most n.
RECURSIVE SeqsUpTo(_, _)
SeqsUpTo(S, n) ==
    IF n = 0 THEN {<<>>}
    ELSE LET shorter == SeqsUpTo(S, n - 1)
         IN  shorter \cup {Append(s, x) : s \in {t \in shorter : Len(t) = n - 1}, x \in S}

\* The "platforms" form field of upload_video: absent or empty, not JSON,
\* a JSON value that is no list (5, null), or a JSON list.
FormInputs ==
    {[kind |-> k, items |-> <<>>] : k \in {"empty", "invalid", "scalar"}}
    \cup {[kind |-> "list", items |-> s] : s \in SeqsUpTo(InputPlatforms, MaxTargets)}

\* Lines 425-429: json.loads(platforms) if platforms else the default; any
\* parse error gives the default too.  A JSON scalar is kept as it is, and
\* is not iterable.
ParsePlatforms(form) ==
    CASE form.kind = "list"   -> [iterable |-> TRUE,  items |-> form.items]
      [] form.kind = "scalar" -> [iterable |-> FALSE, items |-> <<>>]
      [] OTHER                -> [iterable |-> TRUE,  items |-> <<"instagram", "tiktok">>]

VARIABLES
    contents,           \* Content rows: id -> [status, platforms]
    variants,           \* VideoVariant rows
    outputs,            \* files under uploads/processed: <<content id, platform>>
    processing_status,  \* the global dict of line 41
    job,                \* per content id: the create_video_variants call and its tasks
    open_sessions       \* SessionLocal() sessions opened and not closed

vars == <<contents, variants, outputs, processing_status, job, open_sessions>>

NoJob ==
    [pc |-> "none", platforms |-> [iterable |-> TRUE, items |-> <<>>],
     results |-> <<>>, i |-> 0, completed_count |-> 0, final |-> "none"]

Init ==
    /\ contents = <<>>
    /\ variants = {}
    /\ outputs = {}
    /\ processing_status = <<>>
    /\ job = [c \in ContentIds |-> NoJob]
    /\ open_sessions = {}

\* The shape of the state: Content rows (models/content.py), VideoVariant
\* rows (models/video.py), the files written, the entries of the dict, the
\* position of each create_video_variants call and the sessions left open.
TypeOK ==
    /\ DOMAIN contents \subseteq ContentIds
    /\ \A c \in DOMAIN contents : contents[c].status \in ContentStatus
    /\ \A v \in variants :
          /\ v.content_id \in ContentIds
          /\ v.status = "completed"
          /\ v.width \in {1080, 1280}
          /\ v.height \in {720, 1080, 1920}
    /\ \A f \in outputs : f[1] \in ContentIds
    /\ DOMAIN processing_status \subseteq ContentIds
    /\ \A c \in DOMAIN processing_status :
          /\ processing_status[c].status \in {"processing", "completed", "failed"}
          /\ processing_status[c].progress \in 0..100
    /\ \A c \in ContentIds :
          /\ job[c].pc \in {"none", "queued", "await", "sleep", "done", "crashed"}
          /\ job[c].final \in {"none", "ok", "no_content", "query_error", "commit_error"}
          /\ \A k \in DOMAIN job[c].results :
                job[c].results[k] \in {"pending", "true", "false"}
    /\ \A h \in open_sessions : h[1] \in ContentIds

\* dict operations on processing_status and on the Content table.
Put(d, k, v) == [x \in DOMAIN d \cup {k} |-> IF x = k THEN v ELSE d[x]]
Del(d, k) == [x \in DOMAIN d \ {k} |-> d[x]]

\* The entry create_video_variants starts with (lines 212-219); start_time
\* is read by nothing and is left out.
InitEntry ==
    [status |-> "processing", progress |-> 0, current_platform |-> "",
     completed_platforms |-> <<>>, failed_platforms |-> <<>>]

\* The entry the outer handler writes (lines 292-296).
ErrorEntry == [status |-> "failed", progress |-> 0, error |-> "error"]

\* Progress scaled to 100 instead of 80.
Progress_Hundred(completed_count, total_platforms) ==
    (completed_count * 100) \div total_platforms

\* Progress with the count of what is left in place of what is done.
Progress_Falling(completed_count, total_platforms) ==
    ((total_platforms - completed_count) * 80) \div total_platforms

\* int((completed_count / total_platforms) * 80) (line 240); the float
\* product truncates to the integer quotient for every total below 40.
Progress(completed_count, total_platforms) ==
    (completed_count * 80) \div total_platforms

\* Session handles: <<c, 0>> is the finalization's, <<c, k>> worker k's.
FinalHandle(c) == <<c, 0>>

\* What the durable store does at finalization (lines 262-283): the query
\* raises, the commit raises, or both succeed.
FinalOutcomes == {"ok", "query_error", "commit_error"}

\* A record update that moves the record one stage on each time it is
\* applied: processing to ready, ready to published.
MarkConcluded_Advance(rows, c, ok) ==
    IF c \notin DOMAIN rows
    THEN rows
    ELSE Put(rows, c, [rows[c] EXCEPT !.status =
             IF ~ok THEN "failed"
             ELSE IF rows[c].status = "ready" THEN "published" ELSE "ready"])

\* The record update of finalization (lines 267-280): `if content:` then
\* status "ready" when a platform completed, "failed" otherwise, committed.
MarkConcluded(rows, c, ok) ==
    IF c \notin DOMAIN rows
    THEN rows
    ELSE Put(rows, c, [rows[c] EXCEPT !.status = IF ok THEN "ready" ELSE "failed"])

\* Lines 257-283, entered with the loop finished: progress 100, then the
\* Content row and the entry's status, under a try that only logs.
Finalize(c, entry, db) ==
    LET e100 == [entry EXCEPT !.progress = 100, !.current_platform = ""]
        ok == e100.completed_platforms # <<>>
        eSet == [e100 EXCEPT !.status = IF ok THEN "completed" ELSE "failed"]
    IN  IF db = "query_error"
        THEN [entry |-> e100, contents |-> contents,
              sessions |-> open_sessions \cup {FinalHandle(c)}, final |-> "query_error"]
        ELSE IF c \notin DOMAIN contents
        THEN [entry |-> e100, contents |-> contents,
              sessions |-> open_sessions, final |-> "no_content"]
        ELSE IF db = "commit_error"
        THEN [entry |-> eSet, contents |-> contents,
              sessions |-> open_sessions \cup {FinalHandle(c)}, final |-> "commit_error"]
        ELSE [entry |-> eSet, contents |-> MarkConcluded(contents, c, ok),
              sessions |-> open_sessions, final |-> "ok"]

\* Drain with the suspension between the append and the progress of the
\* next iteration: the entry is left with the platform appended and the
\* progress of the step before.
RECURSIVE Drain_Torn(_, _, _, _, _)
Drain_Torn(entry, items, results, i, completed_count) ==
    LET e1 == IF results[i] = "true"
              THEN [entry EXCEPT !.completed_platforms = Append(@, items[i])]
              ELSE [entry EXCEPT !.failed_platforms = Append(@, items[i])]
        cc1 == completed_count + 1
    IN  IF i = Len(items)
        THEN [entry |-> e1, i |-> i, completed_count |-> cc1, finished |-> TRUE]
        ELSE LET e2 == [e1 EXCEPT !.current_platform = items[i + 1],
                                  !.progress = Progress(cc1, Len(items))]
             IN  IF results[i + 1] = "pending"
                 THEN [entry |-> e1, i |-> i + 1, completed_count |-> cc1,
                       finished |-> FALSE]
                 ELSE Drain_Torn(e2, items, results, i + 1, cc1)

\* Drain with a loop that a failed task ends: the failure is recorded and
\* the targets after it are not taken up.
RECURSIVE Drain_AbortOnFault(_, _, _, _, _)
Drain_AbortOnFault(entry, items, results, i, completed_count) ==
    LET e1 == IF results[i] = "true"
              THEN [entry EXCEPT !.completed_platforms = Append(@, items[i])]
              ELSE [entry EXCEPT !.failed_platforms = Append(@, items[i])]
        cc1 == completed_count + 1
    IN  IF i = Len(items) \/ results[i] = "false"
        THEN [entry |-> e1, i |-> i, completed_count |-> cc1, finished |-> TRUE]
        ELSE LET e2 == [e1 EXCEPT !.current_platform = items[i + 1],
                                  !.progress = Progress(cc1, Len(items))]
             IN  IF results[i + 1] = "pending"
                 THEN [entry |-> e2, i |-> i + 1, completed_count |-> cc1,
                       finished |-> FALSE]
                 ELSE Drain_AbortOnFault(e2, items, results, i + 1, cc1)

\* The loop of lines 237-255 from the point where the awaited task i is
\* done, up to the next task that is still pending or the end of the list.
RECURSIVE Drain(_, _, _, _, _)
Drain(entry, items, results, i, completed_count) ==
    LET e1 == IF results[i] = "true"
              THEN [entry EXCEPT !.completed_platforms = Append(@, items[i])]
              ELSE [entry EXCEPT !.failed_platforms = Append(@, items[i])]
        cc1 == completed_count + 1
    IN  IF i = Len(items)
        THEN [entry |-> e1, i |-> i, completed_count |-> cc1, finished |-> TRUE]
        ELSE LET e2 == [e1 EXCEPT !.current_platform = items[i + 1],
                                  !.progress = Progress(cc1, Len(items))]
             IN  IF results[i + 1] = "pending"
                 THEN [entry |-> e2, i |-> i + 1, completed_count |-> cc1,
                       finished |-> FALSE]
                 ELSE Drain(e2, items, results, i + 1, cc1)

\* upload_video (lines 408-497).  A bad extension is a 400 and a failed
\* commit a 500, both before anything is kept; otherwise the Content row is
\* written with status "processing" and create_video_variants is handed to
\* BackgroundTasks, which runs it after the response.
UploadVideo_Inline(c, form, valid_ext, db_ok) ==
    /\ job[c].pc = "none"
    /\ IF valid_ext /\ db_ok
       THEN LET platform_list == ParsePlatforms(form)
                total == Len(platform_list.items)
                inline == platform_list.iterable /\ total > 0
            IN  /\ contents' = Put(contents, c,
                        [status |-> "processing", platforms |-> platform_list,
                         video_url |-> "https://res.cloudinary.com/demo/video/upload"])
                /\ job' = [job EXCEPT ![c] =
                        IF inline
                        THEN [NoJob EXCEPT !.pc = "await", !.i = 1,
                                 !.platforms = platform_list,
                                 !.results = [k \in 1..total |-> "pending"]]
                        ELSE [NoJob EXCEPT !.pc = "queued",
                                 !.platforms = platform_list]]
                /\ processing_status' =
                        IF inline
                        THEN Put(processing_status, c,
                                 [InitEntry EXCEPT
                                     !.current_platform = platform_list.items[1]])
                        ELSE processing_status
                /\ UNCHANGED <<variants, outputs, open_sessions>>
       ELSE UNCHANGED vars

UploadVideo(c, form, valid_ext, db_ok) ==
    /\ job[c].pc = "none"
    /\ IF valid_ext /\ db_ok
       THEN LET platform_list == ParsePlatforms(form)
            IN  /\ contents' = Put(contents, c,
                        [status |-> "processing", platforms |-> platform_list,
                         video_url |-> "https://res.cloudinary.com/demo/video/upload"])
                /\ job' = [job EXCEPT ![c] =
                        [NoJob EXCEPT !.pc = "queued", !.platforms = platform_list]]
                /\ UNCHANGED <<variants, outputs, processing_status, open_sessions>>
       ELSE UNCHANGED vars

\* create_video_variants from its start to its first suspension (lines
\* 208-242), or to the sleep of line 286 when the list is empty, or to the
\* outer handler when the list cannot be iterated.
CVV_Start(c, db) ==
    /\ job[c].pc = "queued"
    /\ LET platforms == job[c].platforms
           total == Len(platforms.items)
       IN  IF ~platforms.iterable
           THEN /\ processing_status' = Put(processing_status, c, ErrorEntry)
                /\ job' = [job EXCEPT ![c].pc = "crashed"]
                /\ UNCHANGED <<contents, variants, outputs, open_sessions>>
           ELSE IF total = 0
           THEN LET f == Finalize(c, InitEntry, db)
                IN  /\ processing_status' = Put(processing_status, c, f.entry)
                    /\ contents' = f.contents
                    /\ open_sessions' = f.sessions
                    /\ job' = [job EXCEPT ![c].pc = "sleep", ![c].final = f.final]
                    /\ UNCHANGED <<variants, outputs>>
           ELSE /\ processing_status' = Put(processing_status, c,
                        [InitEntry EXCEPT !.current_platform = platforms.items[1],
                                          !.progress = Progress(0, total)])
                /\ job' = [job EXCEPT ![c].pc = "await", ![c].i = 1,
                                      ![c].results = [k \in 1..total |-> "pending"]]
                /\ UNCHANGED <<contents, variants, outputs, open_sessions>>

\* create_video_variants resumed by the task it awaits (lines 242-286).  A
\* missing entry makes the append raise KeyError; the handler of line 252
\* raises it again and the outer handler writes the error entry.
CVV_Resume(c, db) ==
    /\ job[c].pc = "await"
    /\ job[c].results[job[c].i] # "pending"
    /\ IF c \notin DOMAIN processing_status
       THEN /\ processing_status' = Put(processing_status, c, ErrorEntry)
            /\ job' = [job EXCEPT ![c].pc = "crashed",
                                  ![c].completed_count = @ + 1]
            /\ UNCHANGED <<contents, variants, outputs, open_sessions>>
       ELSE LET d == Drain(processing_status[c], job[c].platforms.items,
                           job[c].results, job[c].i, job[c].completed_count)
                f == Finalize(c, d.entry, db)
            IN  IF d.finished
                THEN /\ processing_status' = Put(processing_status, c, f.entry)
                     /\ contents' = f.contents
                     /\ open_sessions' = f.sessions
                     /\ job' = [job EXCEPT ![c].pc = "sleep", ![c].i = d.i,
                                           ![c].completed_count = d.completed_count,
                                           ![c].final = f.final]
                     /\ UNCHANGED <<variants, outputs>>
                ELSE /\ processing_status' = Put(processing_status, c, d.entry)
                     /\ job' = [job EXCEPT ![c].i = d.i,
                                           ![c].completed_count = d.completed_count]
                     /\ UNCHANGED <<contents, variants, outputs, open_sessions>>

\* Lines 286-288: after the sleep, the entry is removed if it is there.
CVV_Expire(c) ==
    /\ job[c].pc = "sleep"
    /\ processing_status' = Del(processing_status, c)
    /\ job' = [job EXCEPT ![c].pc = "done"]
    /\ UNCHANGED <<contents, variants, outputs, open_sessions>>

\* What one process_platform_variant call meets (lines 298-406):
\*   source_missing    the original is not on disk (line 327)
\*   transform_failed  process_video_fast returns False (lines 193-195, 342)
\*   output_missing    the copy is not there afterwards: process_video_fast
\*                     falls off its end and returns None (lines 180, 342)
\*   too_small         the output has fewer than 10 bytes (line 354)
\*   db_error          add or commit raises (line 398)
\*   refresh_error     the commit went through and refresh raises (line 390)
\*   ok                the row is committed and the session closed
WorkerOutcomes ==
    {"source_missing", "transform_failed", "output_missing", "too_small",
     "db_error", "refresh_error", "ok"}

\* The VideoVariant row of lines 375-386; uuid4 ids are distinct per call.
VariantRow(c, k, platform) ==
    [id |-> <<c, k>>, content_id |-> c, platform |-> platform,
     width |-> SpecFor(platform).width, height |-> SpecFor(platform).height,
     status |-> "completed"]

\* Task k of job c, process_platform_variant, from start to return: its one
\* await is of a coroutine that never suspends.
Worker_CommitUnverified(c, k, outcome) ==
    /\ job[c].pc \in {"await", "crashed"}
    /\ k \in DOMAIN job[c].results
    /\ job[c].results[k] = "pending"
    /\ LET platform == job[c].platforms.items[k]
           written == outcome \in {"too_small", "db_error", "refresh_error", "ok"}
           opened == outcome \in {"db_error", "refresh_error", "ok"}
           committed == outcome \in {"too_small", "refresh_error", "ok"}
       IN  /\ outputs' = IF written THEN outputs \cup {<<c, platform>>} ELSE outputs
           /\ variants' = IF committed
                          THEN variants \cup {VariantRow(c, k, platform)}
                          ELSE variants
           /\ open_sessions' = IF opened /\ outcome # "ok"
                               THEN open_sessions \cup {<<c, k>>}
                               ELSE open_sessions
           /\ job' = [job EXCEPT ![c].results[k] =
                          IF outcome = "ok" THEN "true" ELSE "false"]
    /\ UNCHANGED <<contents, processing_status>>

Worker_Raises(c, k, outcome) ==
    /\ job[c].pc \in {"await", "crashed"}
    /\ k \in DOMAIN job[c].results
    /\ job[c].results[k] = "pending"
    /\ LET platform == job[c].platforms.items[k]
           written == outcome \in {"too_small", "db_error", "refresh_error", "ok"}
           opened == outcome \in {"db_error", "refresh_error", "ok"}
           committed == outcome \in {"refresh_error", "ok"}
       IN  /\ outputs' = IF written THEN outputs \cup {<<c, platform>>} ELSE outputs
           /\ variants' = IF committed
                          THEN variants \cup {VariantRow(c, k, platform)}
                          ELSE variants
           /\ open_sessions' = IF opened /\ outcome # "ok"
                               THEN open_sessions \cup {<<c, k>>}
                               ELSE open_sessions
           /\ job' = [job EXCEPT ![c].results[k] =
                          IF outcome = "ok" THEN "true"
                          ELSE IF outcome \in {"db_error", "refresh_error"}
                               THEN "raised" ELSE "false"]
    /\ UNCHANGED <<contents, processing_status>>

Worker(c, k, outcome) ==
    /\ job[c].pc \in {"await", "crashed"}
    /\ k \in DOMAIN job[c].results
    /\ job[c].results[k] = "pending"
    /\ LET platform == job[c].platforms.items[k]
           written == outcome \in {"too_small", "db_error", "refresh_error", "ok"}
           opened == outcome \in {"db_error", "refresh_error", "ok"}
           committed == outcome \in {"refresh_error", "ok"}
       IN  /\ outputs' = IF written THEN outputs \cup {<<c, platform>>} ELSE outputs
           /\ variants' = IF committed
                          THEN variants \cup {VariantRow(c, k, platform)}
                          ELSE variants
           /\ open_sessions' = IF opened /\ outcome # "ok"
                               THEN open_sessions \cup {<<c, k>>}
                               ELSE open_sessions
           /\ job' = [job EXCEPT ![c].results[k] =
                          IF outcome = "ok" THEN "true" ELSE "false"]
    /\ UNCHANGED <<contents, processing_status>>

\* delete_content of videos.py (lines 578-612): the variants and the Content
\* row go in one commit, then the entry.  A missing row (404, turned into a
\* 500 by the handler of line 609) or a failed commit changes nothing.
VideosDeleteContent(c, db_ok) ==
    IF c \in DOMAIN contents /\ db_ok
    THEN /\ variants' = {v \in variants : v.content_id # c}
         /\ contents' = Del(contents, c)
         /\ processing_status' = Del(processing_status, c)
         /\ UNCHANGED <<outputs, job, open_sessions>>
    ELSE UNCHANGED vars

\* delete_content of content.py (lines 322-365): the same, without the entry.
ContentDeleteContent(c, db_ok) ==
    IF c \in DOMAIN contents /\ db_ok
    THEN /\ variants' = {v \in variants : v.content_id # c}
         /\ contents' = Del(contents, c)
         /\ UNCHANGED <<outputs, processing_status, job, open_sessions>>
    ELSE UNCHANGED vars

\* update_content of content.py (lines 228-320) with a status in the body.
UpdateContent(c, new_status, db_ok) ==
    IF c \in DOMAIN contents /\ new_status \in ContentStatus /\ db_ok
    THEN /\ contents' = [contents EXCEPT ![c].status = new_status]
         /\ UNCHANGED <<variants, outputs, processing_status, job, open_sessions>>
    ELSE UNCHANGED vars

\* os.path.exists as process_video asks it (line 520): the paths on disk are
\* those under uploads/, and video_url.replace("/uploads/original/", ...)
\* leaves the URL upload_video stored as it is.
FileExists(path) == path = "uploads/original"

\* process_video (lines 499-536).  The only Content rows are upload_video's
\* (create_content of content.py sets no id), their video_url is the remote
\* URL, so the handler raises 404 at line 521 and the handler of line 534
\* answers 500; no second create_video_variants call is ever queued.
ProcessVideo(c, platforms) ==
    /\ c \in DOMAIN contents => ~FileExists(contents[c].video_url)
    /\ UNCHANGED vars

\* get_processing_status (lines 538-546): reads the dict, changes nothing.
get_processing_status(c) ==
    IF c \in DOMAIN processing_status
    THEN [status |-> processing_status[c].status,
          progress |-> processing_status[c].progress]
    ELSE [status |-> "not_found", progress |-> 0]

Next ==
    \/ \E c \in ContentIds, form \in FormInputs, valid_ext \in BOOLEAN, db_ok \in BOOLEAN :
          UploadVideo(c, form, valid_ext, db_ok)
    \/ \E c \in ContentIds, db \in FinalOutcomes : CVV_Start(c, db)
    \/ \E c \in ContentIds, db \in FinalOutcomes : CVV_Resume(c, db)
    \/ \E c \in ContentIds : CVV_Expire(c)
    \/ \E c \in ContentIds, outcome \in WorkerOutcomes :
          \E k \in DOMAIN job[c].results : Worker(c, k, outcome)
    \/ \E c \in ContentIds, db_ok \in BOOLEAN : VideosDeleteContent(c, db_ok)
    \/ \E c \in ContentIds, db_ok \in BOOLEAN : ContentDeleteContent(c, db_ok)
    \/ \E c \in ContentIds, st \in UpdateStatuses, db_ok \in BOOLEAN :
          UpdateContent(c, st, db_ok)
    \/ \E c \in ContentIds, platforms \in SeqsUpTo(InputPlatforms, 1) \ {<<>>} :
          ProcessVideo(c, platforms)

Spec == Init /\ [][Next]_vars

----------------------------------------------------------------------------
(* Vocabulary of the properties below. *)

Terminal == {"completed", "failed"}

\* The entry carries the completed/failed lists (the error entry does not).
HasLists(e) == "completed_platforms" \in DOMAIN e

\* Targets an entry records as concluded.
Concluded(e) ==
    IF HasLists(e) THEN Len(e.completed_platforms) + Len(e.failed_platforms) ELSE 0

\* VideoVariant rows of content c among vs.
RowsIn(vs, c) == {v \in vs : v.content_id = c}

\* The step in which create_video_variants leaves its loop, finalizes and
\* starts the retention sleep.
Finalizing(c) == job[c].pc # "sleep" /\ job'[c].pc = "sleep"

\* The job of c was started with a list.
ListJob(c) == job[c].pc # "none" /\ job[c].platforms.iterable

\* C1: whenever the status entry of a job started with a list of N targets
\* is terminal (completed or failed), the platforms it records as completed
\* plus those it records as failed number N.
C1_TerminalAccountsForAllTargets ==
    \A c \in DOMAIN processing_status :
        (ListJob(c) /\ processing_status[c].status \in Terminal)
            => Concluded(processing_status[c]) = Len(job[c].platforms.items)

\* C2: at the step that concludes a job of at least one target, the entry's status is completed
\* if a target succeeded and failed otherwise, and the Content row's status
\* is the matching one (ready with completed, failed with failed).
C2_OutcomeMatchesRecord ==
    [][\A c \in ContentIds :
          (Finalizing(c) /\ job[c].platforms.items # <<>>) =>
              LET e == processing_status'[c]
                  ok == e.completed_platforms # <<>>
              IN  /\ e.status = IF ok THEN "completed" ELSE "failed"
                  /\ c \in DOMAIN contents'
                  /\ contents'[c].status = IF ok THEN "ready" ELSE "failed"]_vars

\* C3: a job that concludes with at least one completed target leaves the
\* Content row ready and exactly one VideoVariant row per completed
\* platform, each with the width and height of that platform's profile.
C3_SuccessLeavesReadyAndRows ==
    [][\A c \in ContentIds :
          (Finalizing(c) /\ processing_status'[c].completed_platforms # <<>>) =>
              LET done == processing_status'[c].completed_platforms
                  rows == RowsIn(variants', c)
              IN  /\ c \in DOMAIN contents'
                  /\ contents'[c].status = "ready"
                  /\ Cardinality(rows) = Len(done)
                  /\ \A n \in 1..Len(done) :
                        /\ done[n] \in DOMAIN PLATFORM_SPECS
                        /\ \E v \in rows :
                              /\ v.platform = done[n]
                              /\ v.width = PLATFORM_SPECS[done[n]].width
                              /\ v.height = PLATFORM_SPECS[done[n]].height]_vars

\* C4: a job of at least one target that concludes with none completed leaves the Content row
\* failed and no VideoVariant row for it.
C4_TotalFailureLeavesFailedAndNoRows ==
    [][\A c \in ContentIds :
          (Finalizing(c) /\ job[c].platforms.items # <<>>
                         /\ processing_status'[c].completed_platforms = <<>>) =>
              /\ c \in DOMAIN contents'
              /\ contents'[c].status = "failed"
              /\ RowsIn(variants', c) = {}]_vars

\* C5: while the entry of a job id stays in processing_status, from its
\* creation to its removal, no step lowers its progress.
C5_ProgressNeverDecreases ==
    [][\A c \in DOMAIN processing_status \cap DOMAIN processing_status' :
          processing_status'[c].progress >= processing_status[c].progress]_vars

\* C5 witness: an entry part-way, after a target was recorded as failed.
C5_Witness ==
    \E c \in DOMAIN processing_status :
        /\ HasLists(processing_status[c])
        /\ processing_status[c].failed_platforms # <<>>
        /\ processing_status[c].progress > 0
        /\ processing_status[c].progress < 100

\* C6: for a job of at least one target, the entry's progress is 100
\* exactly when its status is completed or failed.
C6_HundredIffTerminal ==
    \A c \in DOMAIN processing_status :
        (ListJob(c) /\ job[c].platforms.items # <<>>) =>
            (processing_status[c].progress = 100
                <=> processing_status[c].status \in Terminal)

\* The platforms among the first n targets whose task returned val, in list
\* order.
RECURSIVE Recorded(_, _, _, _)
Recorded(items, results, n, val) ==
    IF n = 0 THEN <<>>
    ELSE LET before == Recorded(items, results, n - 1, val)
         IN  IF results[n] = val THEN Append(before, items[n]) ELSE before

\* Every target the orchestrator has taken up is in the list its own task's
\* result asks for, whatever the other tasks returned.
C7_EachOutcomeRecorded ==
    \A c \in DOMAIN processing_status :
        job[c].pc \in {"await", "sleep"} =>
            LET e == processing_status[c]
                n == job[c].completed_count
            IN  /\ HasLists(e)
                /\ e.completed_platforms =
                       Recorded(job[c].platforms.items, job[c].results, n, "true")
                /\ e.failed_platforms =
                       Recorded(job[c].platforms.items, job[c].results, n, "false")
                /\ job[c].pc = "sleep" => n = Len(job[c].platforms.items)

\* A task that has not run can run, whatever its siblings returned, and the
\* orchestrator reaches its sleep only with every task concluded.
C7_SiblingsRun ==
    \A c \in ContentIds :
        /\ \A k \in DOMAIN job[c].results :
              (job[c].pc \in {"await", "crashed"} /\ job[c].results[k] = "pending")
                  => ENABLED Worker(c, k, "ok")
        /\ job[c].pc = "sleep" =>
              \A k \in DOMAIN job[c].results : job[c].results[k] # "pending"

\* The orchestrator leaves its loop for the outer handler only when the
\* entry is gone, never because of what a task returned.
C7_NoAbortOnFault ==
    \A c \in ContentIds :
        (job[c].pc = "await" /\ job'[c].pc = "crashed")
            => c \notin DOMAIN processing_status

\* C7: a worker's fault is recorded as that platform's failure; it stops no
\* sibling from running to its conclusion and does not abort the
\* orchestrator, which records every other target as completed or failed.
C7_FaultIsolation ==
    /\ [](C7_EachOutcomeRecorded /\ C7_SiblingsRun)
    /\ [][C7_NoAbortOnFault]_vars

\* C7 witness: the first task failed, the second succeeded, both recorded.
C7_Witness ==
    \E c \in DOMAIN processing_status :
        /\ job[c].pc = "sleep"
        /\ job[c].results = <<"false", "true">>
        /\ processing_status[c].failed_platforms = <<job[c].platforms.items[1]>>
        /\ processing_status[c].completed_platforms = <<job[c].platforms.items[2]>>

\* C8: a job of at least one target does not stop before its entry shows a
\* terminal status with every target concluded: the step in which the
\* orchestrator leaves its loop, the last one that writes the status,
\* leaves it completed or failed.
C8_ConcludedJobIsTerminal ==
    [][\A c \in ContentIds :
          (Finalizing(c) /\ job[c].platforms.items # <<>>) =>
              /\ processing_status'[c].status \in Terminal
              /\ Concluded(processing_status'[c]) = Len(job[c].platforms.items)]_vars

\* C9: after a finalization whose store operation raised, the entry of a
\* job of at least one target is failed and carries an error detail.
C9_FinalizationErrorMarksFailed ==
    \A c \in DOMAIN processing_status :
        (job[c].final \in {"query_error", "commit_error"}
             /\ job[c].platforms.items # <<>>) =>
            /\ processing_status[c].status = "failed"
            /\ "error" \in DOMAIN processing_status[c]

\* C10: a Submit with an empty list leaves no Content row, no job and no
\* entry.
C10_EmptyListRejected ==
    \A c \in ContentIds :
        /\ c \in DOMAIN contents =>
              ~(contents[c].platforms.iterable /\ contents[c].platforms.items = <<>>)
        /\ ListJob(c) => job[c].platforms.items # <<>>
        /\ c \in DOMAIN processing_status => job[c].platforms.items # <<>>

\* C11: a Submit whose list names a platform without a profile is rejected:
\* no Content row, no job, no entry and no VideoVariant row exists for such
\* a list or platform.
C11_UnsupportedPlatformRejected ==
    LET Supported(items) ==
            \A n \in 1..Len(items) : items[n] \in DOMAIN PLATFORM_SPECS
    IN  /\ \A c \in DOMAIN contents : Supported(contents[c].platforms.items)
        /\ \A c \in ContentIds : ListJob(c) => Supported(job[c].platforms.items)
        /\ \A c \in DOMAIN processing_status : Supported(job[c].platforms.items)
        /\ \A v \in variants : v.platform \in DOMAIN PLATFORM_SPECS

QueryIds == ContentIds \cup {"c0"}

\* No Submit ever created a record or a job under id c.
NeverCreated(c) ==
    c \notin ContentIds \/ (job[c].pc = "none" /\ c \notin DOMAIN contents)

\* C13: a status query for an id that has neither a job nor a record
\* answers with the status unknown.
C13_UnknownIdAnswersUnknown ==
    \A c \in QueryIds :
        NeverCreated(c) => get_processing_status(c).status = "unknown"

\* C14: create_video_variants removes the entry it created before it
\* returns, on every path by which it stops: once the call has ended, by
\* the retention sleep or through the outer handler, no entry of that job
\* is left behind for a client to clean up.
C14_StoppedJobLeavesNoEntry ==
    \A c \in ContentIds :
        job[c].pc \in {"done", "crashed"} => c \notin DOMAIN processing_status

\* The body of a successful upload_video (lines 480-486).
UploadResponse(c) == [content_id |-> c, status |-> "processing"]

\* The step in which upload_video accepts a file for content c.
Submitted(c) == job[c].pc = "none" /\ job'[c].pc # "none"

\* C15: the step in which a Submit succeeds leaves the Content row in status
\* processing and answers "processing" while the job is only queued: no
\* worker exists yet, no entry, and no VideoVariant row of that content.
C15_SubmitAnswersBeforeWorkers ==
    [][\A c \in ContentIds :
          Submitted(c) =>
              /\ c \in DOMAIN contents'
              /\ contents'[c].status = "processing"
              /\ UploadResponse(c).status = contents'[c].status
              /\ job'[c].pc = "queued"
              /\ job'[c].results = <<>>
              /\ c \notin DOMAIN processing_status'
              /\ RowsIn(variants', c) = {}]_vars

\* A Submit has been answered and its job has not started.
C15_Witness ==
    \E c \in DOMAIN contents :
        /\ job[c].pc = "queued"
        /\ job[c].platforms.items # <<>>
        /\ contents[c].status = UploadResponse(c).status
        /\ job[c].results = <<>>

\* C16: no two VideoVariant rows share a content id and a platform, whatever
\* list the job was given.
C16_OneRowPerPlatform ==
    \A v1 \in variants : \A v2 \in variants :
        (v1.content_id = v2.content_id /\ v1.platform = v2.platform) => v1 = v2

\* The VideoVariant rows task k of job c wrote.
RowsOf(c, k) == {v \in variants : v.id = <<c, k>>}

\* C17: a worker that returned False, and whose platform the job therefore
\* records as failed, has left no VideoVariant row of its own.
C17_FailedWorkerLeavesNoRow ==
    \A c \in ContentIds : \A k \in DOMAIN job[c].results :
        job[c].results[k] = "false" => RowsOf(c, k) = {}

\* Task k is the only task of job c for its platform.
SoleTask(c, k) ==
    \A j \in DOMAIN job[c].results :
        job[c].platforms.items[j] = job[c].platforms.items[k] => j = k

\* The store raised in task k of job c after the session was opened: the
\* handler of line 398 returns without closing it.
PersistFailed(c, k) == <<c, k>> \in open_sessions

\* C18: a worker whose store operation raised has returned False and left
\* neither a VideoVariant row nor its output file; a worker that returned
\* True has left its output file and exactly one row.
C18_WorkerAllOrNothing ==
    \A c \in ContentIds : \A k \in DOMAIN job[c].results :
        SoleTask(c, k) =>
            /\ PersistFailed(c, k) =>
                   /\ job[c].results[k] = "false"
                   /\ RowsOf(c, k) = {}
                   /\ <<c, job[c].platforms.items[k]>> \notin outputs
            /\ (job[c].results[k] = "true" /\ c \in DOMAIN contents) =>
                   /\ <<c, job[c].platforms.items[k]>> \in outputs
                   /\ Cardinality(RowsOf(c, k)) = 1

\* The step in which task k of job c returns.
Returns(c, k) ==
    /\ k \in DOMAIN job[c].results
    /\ job[c].results[k] = "pending"
    /\ k \in DOMAIN job'[c].results
    /\ job'[c].results[k] # "pending"

\* C19: every process_platform_variant call ends by returning True or
\* False and leaves the orchestrator where it was; it returns True only
\* when its output file is written, its row committed and its session
\* closed, and False in every other case (no source, failed transform, no
\* or too small output, store error).
C19_WorkerAlwaysReturns ==
    [][\A c \in ContentIds : \A k \in DOMAIN job[c].results :
          Returns(c, k) =>
              /\ job'[c].results[k] \in {"true", "false"}
              /\ job'[c].pc = job[c].pc
              /\ processing_status' = processing_status
              /\ job'[c].results[k] = "true" <=>
                     /\ <<c, job[c].platforms.items[k]>> \in outputs'
                     /\ \E v \in variants' : v.id = <<c, k>>
                     /\ <<c, k>> \notin open_sessions']_vars

\* Every way a worker can fail has happened in one job, each recorded as a
\* failure: one task met a store error, the other ended before the store.
C19_Witness ==
    \E c \in ContentIds :
        /\ job[c].pc = "sleep"
        /\ Len(job[c].results) = 2
        /\ \A k \in 1..2 : job[c].results[k] = "false"
        /\ PersistFailed(c, 1) /\ ~PersistFailed(c, 2)
        /\ HasLists(processing_status[c])
        /\ Len(processing_status[c].failed_platforms) = 2

\* Applying the record update of finalization to rows a second time changes
\* nothing.
Idempotent(rows) ==
    \A c \in QueryIds : \A ok \in BOOLEAN :
        MarkConcluded(MarkConcluded(rows, c, ok), c, ok) = MarkConcluded(rows, c, ok)

\* C20: the record update of finalization is idempotent: on the Content
\* rows of every state, applying it twice with the same outcome gives what
\* applying it once gives, and applying it again to the rows a finalization
\* has just committed leaves them as they are.
C20_MarkConcludedIdempotent ==
    [][/\ Idempotent(contents) /\ Idempotent(contents')
       /\ \A c \in ContentIds :
              (Finalizing(c) /\ job'[c].final = "ok") =>
                  MarkConcluded(contents', c,
                      processing_status'[c].status = "completed") = contents']_vars

\* A finalization has committed the record as ready: applying the same
\* update again leaves the rows as they are, the opposite one does not.
C20_Witness ==
    \E c \in DOMAIN contents :
        /\ job[c].pc = "sleep" /\ job[c].final = "ok"
        /\ job[c].platforms.items # <<>>
        /\ contents[c].status = "ready"
        /\ MarkConcluded(contents, c, TRUE) = contents
        /\ MarkConcluded(contents, c, FALSE) # contents

\* The elements of a sequence.
Range(seq) == {seq[n] : n \in 1..Len(seq)}

\* C21: in every entry that carries the lists, completed_platforms and
\* failed_platforms have no platform in common, both hold only platforms of
\* the list the job was given, and together they hold at most as many
\* elements as the list.
C21_ListsDisjointAndBounded ==
    \A c \in DOMAIN processing_status :
        LET e == processing_status[c]
        IN  HasLists(e) =>
                /\ Range(e.completed_platforms) \cap Range(e.failed_platforms) = {}
                /\ Range(e.completed_platforms) \subseteq Range(job[c].platforms.items)
                /\ Range(e.failed_platforms) \subseteq Range(job[c].platforms.items)
                /\ Concluded(e) <= Len(job[c].platforms.items)

\* Task k of job c returned False before it reached the store block: no
\* source (line 327), transform not successful (line 342), output missing
\* (line 347) or shorter than 10 bytes (line 354).
VerifyFailed(c, k) == job[c].results[k] = "false" /\ ~PersistFailed(c, k)

\* C22: a VideoVariant row of a task exists only when its output file is on
\* disk and the task passed the checks of lines 342-356 and reached the
\* store block; a task stopped by one of those checks has no row.
C22_RowOnlyAfterVerifiedOutput ==
    \A c \in ContentIds : \A k \in DOMAIN job[c].results :
        /\ RowsOf(c, k) # {} =>
               /\ <<c, job[c].platforms.items[k]>> \in outputs
               /\ job[c].results[k] = "true" \/ PersistFailed(c, k)
        /\ VerifyFailed(c, k) => RowsOf(c, k) = {}

\* One task has its row and its file; the other wrote a file that failed
\* the size check and has no row.
C22_Witness ==
    \E c \in ContentIds :
        /\ Len(job[c].results) = 2
        /\ job[c].platforms.items[1] # job[c].platforms.items[2]
        /\ job[c].results[1] = "true" /\ RowsOf(c, 1) # {}
        /\ VerifyFailed(c, 2)
        /\ <<c, job[c].platforms.items[2]>> \in outputs
        /\ RowsOf(c, 2) = {}

\* C23 as stated: with k of N targets recorded the stored progress is
\* base + floor(k / N * (100 - base)) for a positive base.
C23_ProgressFromPositiveBase ==
    \A c \in DOMAIN processing_status :
        LET e == processing_status[c]
            N == Len(job[c].platforms.items)
        IN  (HasLists(e) /\ N > 0) =>
                \E base \in 1..99 :
                    e.progress = base + (Concluded(e) * (100 - base)) \div N

\* C23 amended: with k of N targets recorded the stored progress is
\* floor(k / N * 80) while k < N, so 0 while none is recorded, and 100 once
\* all N are.
C23_ProgressFromCount ==
    \A c \in DOMAIN processing_status :
        LET e == processing_status[c]
            N == Len(job[c].platforms.items)
            k == Concluded(e)
        IN  HasLists(e) =>
                /\ k <= N
                /\ e.progress = IF k = N THEN 100 ELSE (k * 80) \div N

\* One of two targets is recorded and the job is waiting for the other.
C23_Witness ==
    \E c \in DOMAIN processing_status :
        /\ job[c].pc = "await"
        /\ Len(job[c].platforms.items) = 2
        /\ HasLists(processing_status[c])
        /\ Concluded(processing_status[c]) = 1
        /\ processing_status[c].progress = 40

(***************************************************************************)
(* The same program under the order in which the asyncio event loop runs   *)
(* it.  create_task queues the tasks in list order (lines 225-231) and the *)
(* loop runs its ready callbacks first in, first out.  A task never        *)
(* suspends (the await of line 335 is of a coroutine without a suspending  *)
(* await), so each runs to its return; the wake-up of the orchestrator is  *)
(* queued when the task it awaits (line 242) is done, behind the tasks     *)
(* still queued.  The request handlers are coroutines of the same loop and *)
(* run before the first task or after the last one.                        *)
(***************************************************************************)

\* Every task of job c queued before task k has returned.
InTurn(c, k) == \A j \in 1..(k - 1) : job[c].results[j] # "pending"

\* Every task of job c has returned.
AllRun(c) == \A k \in DOMAIN job[c].results : job[c].results[k] # "pending"

\* The loop is between two tasks of one job.
MidBatch ==
    \E c \in ContentIds :
        /\ \E k \in DOMAIN job[c].results : job[c].results[k] # "pending"
        /\ ~AllRun(c)

RunTask(c, k, outcome) == InTurn(c, k) /\ Worker(c, k, outcome)

WakeUp(c, db) == AllRun(c) /\ CVV_Resume(c, db)

LoopNext ==
    \/ \E c \in ContentIds, form \in FormInputs, valid_ext \in BOOLEAN, db_ok \in BOOLEAN :
          ~MidBatch /\ UploadVideo(c, form, valid_ext, db_ok)
    \/ \E c \in ContentIds, db \in FinalOutcomes : ~MidBatch /\ CVV_Start(c, db)
    \/ \E c \in ContentIds, db \in FinalOutcomes : WakeUp(c, db)
    \/ \E c \in ContentIds : ~MidBatch /\ CVV_Expire(c)
    \/ \E c \in ContentIds, outcome \in WorkerOutcomes :
          \E k \in DOMAIN job[c].results : RunTask(c, k, outcome)
    \/ \E c \in ContentIds, db_ok \in BOOLEAN :
          ~MidBatch /\ VideosDeleteContent(c, db_ok)
    \/ \E c \in ContentIds, db_ok \in BOOLEAN :
          ~MidBatch /\ ContentDeleteContent(c, db_ok)
    \/ \E c \in ContentIds, st \in UpdateStatuses, db_ok \in BOOLEAN :
          ~MidBatch /\ UpdateContent(c, st, db_ok)
    \/ \E c \in ContentIds, platforms \in SeqsUpTo(InputPlatforms, 1) \ {<<>>} :
          ~MidBatch /\ ProcessVideo(c, platforms)

LoopSpec == Init /\ [][LoopNext]_vars

\* C24: a task that has returned and is not yet in the lists does not wait
\* for a task that is still to return: the orchestrator's next step, which
\* records it and moves the progress, can be taken at once.
C24_RecordedWithoutWaiting ==
    \A c \in ContentIds :
        (/\ job[c].pc = "await"
         /\ \E k \in DOMAIN job[c].results :
                job[c].results[k] # "pending" /\ k > job[c].completed_count)
            => ENABLED WakeUp(c, "ok")

\* C25: the finalization of a job of at least one target writes the Content
\* row's status only when it is processing: a row whose status another
\* operation has set to something else keeps it through the finalizing step.
C25_FinalizationOnlyOutOfProcessing ==
    [][\A c \in ContentIds :
          (/\ Finalizing(c)
           /\ job[c].platforms.items # <<>>
           /\ c \in DOMAIN contents
           /\ contents[c].status # "processing") =>
              /\ c \in DOMAIN contents'
              /\ contents'[c].status = contents[c].status]_vars

\* C26: whatever a status query finds in the dict is whole: the entry has a
\* status and a progress, and when it carries the lists, the number of
\* platforms in them is the orchestrator's count and the progress is the
\* one the code stores for that count; no state has a platform appended
\* with the count or the progress of the step before.
C26_QuerySeesWholeEntry ==
    \A c \in DOMAIN processing_status :
        LET e == processing_status[c]
            N == Len(job[c].platforms.items)
            seen == get_processing_status(c)
        IN  /\ {"status", "progress"} \subseteq DOMAIN e
            /\ seen.status = e.status /\ seen.progress = e.progress
            /\ HasLists(e) =>
                   /\ job[c].completed_count = Concluded(e)
                   /\ seen.progress =
                          IF Concluded(e) = N THEN 100 ELSE (Concluded(e) * 80) \div N

\* A query arrives while the job runs: both tasks have returned, the
\* orchestrator has not woken up yet, and the entry is the whole one of
\* before, with empty lists and progress 0.
C26_Witness ==
    \E c \in DOMAIN processing_status :
        /\ job[c].pc = "await"
        /\ Len(job[c].results) = 2 /\ AllRun(c)
        /\ job[c].completed_count = 0
        /\ Concluded(processing_status[c]) = 0
        /\ get_processing_status(c) = [status |-> "processing", progress |-> 0]

\* C27: from the answer of a successful Submit until the retention removal,
\* as long as the Content row is there, a status query for the id finds the
\* job's entry and does not answer with the not_found default.
C27_EntryExistsFromSubmit ==
    \A c \in DOMAIN contents :
        job[c].pc \in {"queued", "await", "sleep"} =>
            /\ c \in DOMAIN processing_status
            /\ get_processing_status(c).status # "not_found"

\* C29: when the Content row of a job of at least one target has been
\* deleted and the job is over (the orchestrator has returned and every
\* task has returned), neither an entry nor a VideoVariant row of that
\* content is left.
C29_DeletedRecordLeavesNothing ==
    \A c \in ContentIds :
        (/\ ListJob(c) /\ job[c].platforms.items # <<>>
         /\ c \notin DOMAIN contents
         /\ job[c].pc \in {"done", "crashed"}
         /\ AllRun(c)) =>
            /\ c \notin DOMAIN processing_status
            /\ RowsIn(variants, c) = {}

\* C30: in a job of at least one target, the session a task opened is
\* closed once the task has returned, whatever it returned, and the session
\* finalization opened is closed once finalization is over; no session is
\* left open by a unit that is done.
C30_SessionsClosedWhenUnitEnds ==
    \A c \in ContentIds :
        job[c].platforms.items # <<>> =>
        /\ \A k \in DOMAIN job[c].results :
               job[c].results[k] # "pending" => <<c, k>> \notin open_sessions
        /\ job[c].final # "none" => FinalHandle(c) \notin open_sessions

====
